---- MODULE Spec2Model ----
(***************************************************************************)
(* The RentCast star-schema pipeline of REALJIFI/primesqure_API:           *)
(* TRANSFORM.py (normalise and join the two record sets), CREATE_TABLE.py  *)
(* (six dimension tables, the fact table, the CSV files, the schema),      *)
(* LOAD.py (one load per table) and MAIN.py (the orchestration).           *)
(*                                                                         *)
(* A DataFrame is [columns |-> sequence of names, rows |-> sequence of     *)
(* functions from the column names to values].  Values are tagged tuples,  *)
(* so that values of different Python types can be compared:               *)
(*   Null (NaN, NaT, None), S(string), N(whole, tenth) (a number with one  *)
(*   decimal digit), B(boolean), L(list of strings), D(day) (a timestamp). *)
(***************************************************************************)
EXTENDS Integers, Sequences, FiniteSets, TLC

Null == <<"null">>
S(s) == <<"str", s>>
N(w, f) == <<"num", w, f>>
B(b) == <<"bool", b>>
L(l) == <<"list", l>>
D(d) == <<"date", d>>
\* An ISO timestamp text of the API, for the day d.
Iso(d) == <<"iso", d>>

IsNull(v) == v = Null
IsList(v) == v[1] = "list"
IsNum(v) == v[1] = "num"

ToSet(seq) == {seq[i] : i \in 1..Len(seq)}
Max(a, b) == IF a >= b THEN a ELSE b

RECURSIVE SumSeq(_)
SumSeq(seq) == IF seq = <<>> THEN 0 ELSE Head(seq) + SumSeq(Tail(seq))

\* df[cols]: the projection of a row on a list of columns.
Project(row, cols) == [c \in ToSet(cols) |-> row[c]]

EmptyFrame == [columns |-> <<>>, rows |-> <<>>]

(***************************************************************************)
(* Bounds of the model: the longest record sets the extraction returns.    *)
(***************************************************************************)
MaxProperties == 2
MaxListings == 2

(***************************************************************************)
(* TRANSFORM.py                                                            *)
(***************************************************************************)
property_columns ==
    << "id", "formattedAddress", "county", "lastSaleDate", "owner.names", "owner.type",
       "lastSalePrice", "ownerOccupied", "bedrooms", "bathrooms", "squareFootage",
       "yearBuilt", "city", "state", "zipCode", "latitude", "longitude", "propertyType",
       "lotSize" >>

sale_columns ==
    << "id", "status", "price", "listingType", "listedDate", "propertyType",
       "listingAgent.name", "listingAgent.phone", "listingAgent.email",
       "listingOffice.name", "listingOffice.phone", "listingOffice.email",
       "listingOffice.website", "removedDate", "createdDate", "lastSeenDate" >>

property_rename ==
    ("id" :> "property_code") @@ ("propertyType" :> "property_Type") @@
    ("owner.names" :> "owner_names") @@ ("owner.type" :> "owner_type") @@
    ("lastSaleDate" :> "last_saleDate") @@ ("lastSalePrice" :> "last_SalePrice") @@
    ("ownerOccupied" :> "owner_Occupied") @@ ("squareFootage" :> "square_Footage") @@
    ("yearBuilt" :> "year_Built") @@ ("zipCode" :> "zip_Code") @@
    ("lotSize" :> "lot_Size") @@ ("formattedAddress" :> "property_Address")

sale_rename ==
    ("id" :> "listing_code") @@ ("listedDate" :> "listed_Date") @@
    ("listingType" :> "listing_Type") @@ ("propertyType" :> "listing_property_Type") @@
    ("listingAgent.name" :> "agent_name") @@ ("listingAgent.phone" :> "agent_phone") @@
    ("listingAgent.email" :> "agent_email") @@
    ("listingOffice.name" :> "listing_office_name") @@
    ("listingOffice.phone" :> "listing_office_phone") @@
    ("listingOffice.email" :> "listing_office_email") @@
    ("listingOffice.website" :> "listing_office_website") @@
    ("removedDate" :> "removed_Date") @@ ("createdDate" :> "created_Date") @@
    ("lastSeenDate" :> "last_Seen_Date")

\* df[cols] raises KeyError when a column is absent (an empty DataFrame has none).
HasColumns(df, cols) == ToSet(cols) \subseteq ToSet(df.columns)

SelectFrame(df, cols) ==
    [columns |-> cols, rows |-> [i \in 1..Len(df.rows) |-> Project(df.rows[i], cols)]]

select_columns(df_properties, df_sale_listings) ==
    << SelectFrame(df_properties, property_columns),
       SelectFrame(df_sale_listings, sale_columns) >>

NewName(map, c) == IF c \in DOMAIN map THEN map[c] ELSE c
OldName(map, c) ==
    IF \E o \in DOMAIN map : map[o] = c THEN CHOOSE o \in DOMAIN map : map[o] = c ELSE c

RenameFrame(df, map) ==
    LET cols == [i \in 1..Len(df.columns) |-> NewName(map, df.columns[i])]
        old == [c \in ToSet(cols) |-> OldName(map, c)]
    IN  [columns |-> cols,
         rows |-> [i \in 1..Len(df.rows) |-> [c \in DOMAIN old |-> df.rows[i][old[c]]]]]

rename_columns(df_properties, df_sale_listings) ==
    << RenameFrame(df_properties, property_rename),
       RenameFrame(df_sale_listings, sale_rename) >>

\* pd.to_datetime(errors='coerce'): a timestamp text parses, anything else is NaT.
ToDatetime(v) == IF v[1] = "iso" THEN D(v[2]) ELSE IF v[1] = "date" THEN v ELSE Null

\* df[cols] = df[cols].apply(pd.to_datetime, errors='coerce')
DatesFrame(df, cols) ==
    [df EXCEPT !.rows = [i \in 1..Len(df.rows) |->
        [c \in ToSet(df.columns) |->
            IF c \in cols THEN ToDatetime(df.rows[i][c]) ELSE df.rows[i][c]]]]

convert_dates(df_properties, df_sale_listings) ==
    << DatesFrame(df_properties, {"last_saleDate"}),
       DatesFrame(df_sale_listings,
                  {"listed_Date", "removed_Date", "created_Date", "last_Seen_Date"}) >>

property_fill ==
    ("bathrooms" :> N(0, 0)) @@ ("bedrooms" :> N(0, 0)) @@ ("square_Footage" :> N(0, 0)) @@
    ("county" :> S("unknown")) @@ ("property_Type" :> S("unknown")) @@
    ("year_Built" :> N(0, 0)) @@ ("lot_Size" :> N(0, 0)) @@ ("owner_Occupied" :> N(0, 0)) @@
    ("last_SalePrice" :> N(0, 0)) @@ ("owner_names" :> S("unknown")) @@
    ("owner_type" :> S("unknown")) @@ ("property_Address" :> S("unknown")) @@
    ("city" :> S("unknown")) @@ ("state" :> S("unknown")) @@ ("zip_Code" :> S("unknown")) @@
    ("latitude" :> N(0, 0)) @@ ("longitude" :> N(0, 0)) @@ ("last_saleDate" :> Null)

sale_fill ==
    ("status" :> S("unknown")) @@ ("price" :> N(0, 0)) @@ ("listing_Type" :> S("unknown")) @@
    ("listed_Date" :> Null) @@ ("listing_property_Type" :> S("unknown")) @@
    ("agent_name" :> S("unknown")) @@ ("agent_phone" :> S("unknown")) @@
    ("agent_email" :> S("unknown")) @@ ("listing_office_name" :> S("unknown")) @@
    ("listing_office_phone" :> S("unknown")) @@ ("listing_office_email" :> S("unknown")) @@
    ("listing_office_website" :> S("unknown")) @@ ("removed_Date" :> Null) @@
    ("created_Date" :> Null) @@ ("last_Seen_Date" :> Null)

\* fillna left out: the frame as it was.
FillFrameNotApplied(df, fill) == df

\* DataFrame.fillna(dict): a null cell of a listed column takes the column's default.
FillFrame(df, fill) ==
    [df EXCEPT !.rows = [i \in 1..Len(df.rows) |->
        [c \in ToSet(df.columns) |->
            IF c \in DOMAIN fill /\ IsNull(df.rows[i][c]) THEN fill[c] ELSE df.rows[i][c]]]]

fill_missing_values(df_properties, df_sale_listings) ==
    << FillFrame(df_properties, property_fill), FillFrame(df_sale_listings, sale_fill) >>

(***************************************************************************)
(* pandas.merge(how='left').  The keys are hashed, so a list among them    *)
(* raises TypeError (unhashable type); null keys match null keys.  The     *)
(* left order is kept, and the matches of one left row come in the right   *)
(* frame's order.  A left row without a match keeps nulls in the right     *)
(* frame's columns.                                                        *)
(***************************************************************************)
KeyOf(row, on) == [i \in 1..Len(on) |-> row[on[i]]]

MergeRaises(left, right, left_on, right_on) ==
    \/ \E i \in 1..Len(left.rows), k \in 1..Len(left_on) : IsList(left.rows[i][left_on[k]])
    \/ \E i \in 1..Len(right.rows), k \in 1..Len(right_on) : IsList(right.rows[i][right_on[k]])

\* The right frame's columns the result adds to the left frame's.
MergeExtra(left, right) == SelectSeq(right.columns, LAMBDA c : c \notin ToSet(left.columns))

MergeMatches(lrow, right, left_on, right_on) ==
    SelectSeq(right.rows, LAMBDA r : KeyOf(r, right_on) = KeyOf(lrow, left_on))

\* how='inner': a left row without a match gives no row.
JoinRowsInner(lrow, matches, extra, indicator) ==
    [j \in 1..Len(matches) |->
        lrow @@ Project(matches[j], extra)
             @@ (IF indicator THEN "_merge" :> S("both") ELSE << >>)]

\* The rows one left row gives: one per match, or one with nulls on the right.
\* With indicator=True the column _merge tells which.
JoinRows(lrow, matches, extra, indicator) ==
    IF matches = <<>>
    THEN << lrow @@ [c \in ToSet(extra) |-> Null]
                 @@ (IF indicator THEN "_merge" :> S("left_only") ELSE << >>) >>
    ELSE [j \in 1..Len(matches) |->
             lrow @@ Project(matches[j], extra)
                  @@ (IF indicator THEN "_merge" :> S("both") ELSE << >>)]

RECURSIVE MergeRows(_, _, _, _, _)
MergeRows(lrows, right, on, extra, indicator) ==
    IF lrows = <<>> THEN <<>>
    ELSE JoinRows(Head(lrows), MergeMatches(Head(lrows), right, on[1], on[2]),
                  extra, indicator)
         \o MergeRows(Tail(lrows), right, on, extra, indicator)

MergeLeft(left, right, left_on, right_on, indicator) ==
    LET extra == MergeExtra(left, right)
    IN  [columns |-> left.columns \o extra \o (IF indicator THEN << "_merge" >> ELSE <<>>),
         rows |-> MergeRows(left.rows, right, << left_on, right_on >>, extra, indicator)]

\* DataFrame.drop(columns, errors='ignore')
DropColumns(df, cols) ==
    LET keep == SelectSeq(df.columns, LAMBDA c : c \notin cols)
    IN  [columns |-> keep,
         rows |-> [i \in 1..Len(df.rows) |-> Project(df.rows[i], keep)]]

\* The join turned round: every listing once per matching property.
merge_dataframes_right(df_properties, df_sale_listings) ==
    LET m == MergeLeft(df_sale_listings, df_properties,
                       << "listing_code" >>, << "property_code" >>, TRUE)
        cols == SelectSeq(df_properties.columns \o df_sale_listings.columns \o << "_merge" >>,
                          LAMBDA c : c # "listing_property_Type")
    IN  [columns |-> cols, rows |-> m.rows]

merge_dataframes(df_properties, df_sale_listings) ==
    DropColumns(MergeLeft(df_properties, df_sale_listings,
                          << "property_code" >>, << "listing_code" >>, TRUE),
                {"listing_property_Type"})

\* The four steps of process_rentcast_data before the merge.
Normalize(df_properties, df_sale_listings) ==
    LET a == select_columns(df_properties, df_sale_listings)
        b == rename_columns(a[1], a[2])
        c == convert_dates(b[1], b[2])
    IN  fill_missing_values(c[1], c[2])

(***************************************************************************)
(* CREATE_TABLE.py                                                         *)
(***************************************************************************)
RECURSIVE Dedup(_, _)
Dedup(rows, seen) ==
    IF rows = <<>> THEN <<>>
    ELSE IF Head(rows) \in seen THEN Dedup(Tail(rows), seen)
    ELSE << Head(rows) >> \o Dedup(Tail(rows), seen \cup {Head(rows)})

\* drop_duplicates left out: every row is kept.
drop_duplicates_keeps_all(df) == df

\* DataFrame.drop_duplicates(): the first of equal rows is kept (NaN equals NaN).
drop_duplicates(df) == [df EXCEPT !.rows = Dedup(df.rows, {})]

\* The key counted from 1 instead of 0.
IndexAsColumnFromOne(df, id) ==
    [columns |-> << id >> \o df.columns,
     rows |-> [i \in 1..Len(df.rows) |-> (id :> N(i, 0)) @@ df.rows[i]]]

\* reset_index(drop=True); index.name = id; reset_index(): the position becomes
\* the first column, counted from 0.
IndexAsColumn(df, id) ==
    [columns |-> << id >> \o df.columns,
     rows |-> [i \in 1..Len(df.rows) |-> (id :> N(i - 1, 0)) @@ df.rows[i]]]

location_attrs == << "city", "state", "zip_Code", "county", "longitude", "latitude" >>
property_attrs ==
    << "property_code", "property_Address", "property_Type", "bedrooms", "bathrooms",
       "square_Footage", "year_Built", "lot_Size" >>
agent_attrs == << "agent_name", "agent_phone", "agent_email" >>
owner_attrs == << "owner_names", "owner_type", "owner_Occupied" >>
office_attrs ==
    << "listing_office_name", "listing_office_phone", "listing_office_email",
       "listing_office_website" >>
listing_attrs == << "listing_code", "listing_Type" >>

create_location_dim_table(df) ==
    IndexAsColumn(drop_duplicates(SelectFrame(df, location_attrs)), "location_id")

create_property_dim_table(df) ==
    IndexAsColumn(drop_duplicates(SelectFrame(df, property_attrs)), "property_id")

create_agent_dim_table(df) ==
    IndexAsColumn(drop_duplicates(SelectFrame(df, agent_attrs)), "agent_id")

\* ', '.join(x)
RECURSIVE JoinNames(_)
JoinNames(l) ==
    IF l = <<>> THEN ""
    ELSE IF Len(l) = 1 THEN l[1]
    ELSE l[1] \o ", " \o JoinNames(Tail(l))

\* lambda x: ', '.join(x) if isinstance(x, list) else x
OwnerNamesText(x) == IF IsList(x) THEN S(JoinNames(x[2])) ELSE x

\* df_copy['owner_names'] = df_copy['owner_names'].apply(...): on a copy of df.
OwnerNamesJoined(df) ==
    [df EXCEPT !.rows = [i \in 1..Len(df.rows) |->
        [df.rows[i] EXCEPT !["owner_names"] = OwnerNamesText(@)]]]

create_owner_dim_table(df) ==
    IndexAsColumn(drop_duplicates(SelectFrame(OwnerNamesJoined(df), owner_attrs)), "owner_id")

create_office_dim_table(df) ==
    IndexAsColumn(drop_duplicates(SelectFrame(df, office_attrs)), "office_id")

create_listing_dim_table(df) ==
    IndexAsColumn(drop_duplicates(SelectFrame(df, listing_attrs)), "listing_id")

\* The dimension tables in the order create_fact_table unpacks them, each with
\* the columns it is joined on.
fact_joins ==
    << property_attrs, owner_attrs, location_attrs, agent_attrs, office_attrs,
       listing_attrs >>

selected_columns ==
    << "property_id", "owner_id", "location_id", "agent_id", "office_id", "listing_id",
       "status", "price", "listing_Type", "listed_Date", "last_saleDate",
       "removed_Date", "created_Date", "last_Seen_Date", "property_Type", "last_SalePrice" >>

\* df_clean.merge(property_dim, ...).merge(owner_dim, ...) ... .merge(listing_dim, ...)
RECURSIVE JoinDimensions(_, _, _)
JoinDimensions(frame, dimension_tables, k) ==
    IF k > Len(dimension_tables) THEN frame
    ELSE JoinDimensions(
             MergeLeft(frame, dimension_tables[k], fact_joins[k], fact_joins[k], FALSE),
             dimension_tables, k + 1)

\* A merge never changes the left frame's columns, so the k-th merge raises on
\* the keys of df itself.
FactRaises(df, dimension_tables) ==
    \E k \in 1..Len(dimension_tables) :
        MergeRaises(df, dimension_tables[k], fact_joins[k], fact_joins[k])

\* fact_id = index, without the + 1.
AssignFactIdFromZero(frame) ==
    [columns |-> frame.columns \o << "fact_id" >>,
     rows |-> [i \in 1..Len(frame.rows) |-> ("fact_id" :> N(i - 1, 0)) @@ frame.rows[i]]]

\* fact_table['fact_id'] = fact_table.index + 1 (the index of a merge result is
\* 0, 1, 2, ...); selected_columns never holds fact_id, so the test of line 156
\* always passes.
AssignFactId(frame) ==
    [columns |-> frame.columns \o << "fact_id" >>,
     rows |-> [i \in 1..Len(frame.rows) |-> ("fact_id" :> N(i, 0)) @@ frame.rows[i]]]

\* The value create_fact_table returns when no merge raises.
create_fact_table(df, dimension_tables) ==
    LET df_clean == DropColumns(df, {"_merge"})
        joined == JoinDimensions(df_clean, dimension_tables, 1)
        available_columns ==
            SelectSeq(selected_columns, LAMBDA c : c \in ToSet(joined.columns))
        fact_table == AssignFactId(SelectFrame(joined, available_columns))
    IN  drop_duplicates(SelectFrame(fact_table, << "fact_id" >> \o available_columns))

(***************************************************************************)
(* DataFrame.to_csv(index=False).  A file is its header and its rows of    *)
(* cells, by position.  A cell is a text Txt(s), the text of a number      *)
(* Lit(w, f), or the text of a day DateTxt(d).  A null is written as the   *)
(* empty text, a boolean as True or False, a list as its Python repr.      *)
(***************************************************************************)
Txt(s) == << "txt", s >>
Lit(w, f) == << "lit", w, f >>
DateTxt(d) == << "datetxt", d >>

RECURSIVE QuotedNames(_)
QuotedNames(l) ==
    IF l = <<>> THEN ""
    ELSE IF Len(l) = 1 THEN "'" \o l[1] \o "'"
    ELSE "'" \o l[1] \o "', " \o QuotedNames(Tail(l))

ToCell(v) ==
    CASE v[1] = "null" -> Txt("")
      [] v[1] = "str" -> Txt(v[2])
      [] v[1] = "num" -> Lit(v[2], v[3])
      [] v[1] = "bool" -> Txt(IF v[2] THEN "True" ELSE "False")
      [] v[1] = "list" -> Txt("[" \o QuotedNames(v[2]) \o "]")
      [] v[1] = "date" -> DateTxt(v[2])
      [] v[1] = "iso" -> Txt(v[2])

to_csv(df) ==
    [header |-> df.columns,
     rows |-> [i \in 1..Len(df.rows) |->
                  [k \in 1..Len(df.columns) |-> ToCell(df.rows[i][df.columns[k]])]]]

table_names ==
    << "location_dim.csv", "property_dim_table.csv", "agent_data.csv",
       "owner_data.csv", "office_data.csv", "listing_data.csv", "fact_data.csv" >>

\* for table, name in zip(tables, table_names): table.to_csv(...)
save_dimension_tables(tables) == [k \in 1..Len(table_names) |-> to_csv(tables[k])]

(***************************************************************************)
(* The schema of create_database_tables, as the store enforces it on an    *)
(* INSERT: the primary key is unique and not null, the NOT NULL columns    *)
(* are not null, a UNIQUE constraint forbids two rows equal on its columns *)
(* when none of them is null, and a non-null foreign key is the key of a   *)
(* row of the table it references.  A statement that breaks a constraint   *)
(* fails as a whole (psycopg2.Error).                                      *)
(***************************************************************************)
db_tables ==
    << "property_dim_table", "owner_dim_table", "location_dim_table", "agent_dim_table",
       "office_dim_table", "listing_dim_table", "fact_dim_table" >>

schema ==
    [property_dim_table |->
        [pk |-> "property_id", not_null |-> {"property_code", "property_address"},
         unique |-> {"property_code", "property_address", "property_type", "bedrooms",
                     "bathrooms", "square_footage", "year_built", "lot_size"},
         fks |-> {}],
     owner_dim_table |->
        [pk |-> "owner_id", not_null |-> {"owner_names"},
         unique |-> {"owner_names", "owner_type", "owner_occupied"}, fks |-> {}],
     location_dim_table |->
        [pk |-> "location_id", not_null |-> {},
         unique |-> {"city", "state", "zip_code", "county", "longitude", "latitude"},
         fks |-> {}],
     agent_dim_table |->
        [pk |-> "agent_id", not_null |-> {"agent_name"},
         unique |-> {"agent_name", "agent_phone", "agent_email"}, fks |-> {}],
     office_dim_table |->
        [pk |-> "office_id", not_null |-> {"listing_office_name"},
         unique |-> {"listing_office_name", "listing_office_phone",
                     "listing_office_email", "listing_office_website"},
         fks |-> {}],
     listing_dim_table |->
        [pk |-> "listing_id", not_null |-> {"listing_code"},
         unique |-> {"listing_code", "listing_type"}, fks |-> {}],
     fact_dim_table |->
        [pk |-> "fact_id", not_null |-> {"property_id"}, unique |-> {},
         fks |-> { << "property_id", "property_dim_table" >>,
                   << "owner_id", "owner_dim_table" >>,
                   << "location_id", "location_dim_table" >>,
                   << "agent_id", "agent_dim_table" >>,
                   << "office_id", "office_dim_table" >>,
                   << "listing_id", "listing_dim_table" >> }]]

\* The tables after DROP TABLE IF EXISTS ... CASCADE; CREATE TABLE ...: all empty.
EmptyTables == [n \in ToSet(db_tables) |-> {}]

\* CREATE TABLE IF NOT EXISTS alone, without the DROP statements: a table that
\* exists keeps its rows.
CreateIfMissing(db) == [n \in ToSet(db_tables) |-> IF n \in DOMAIN db THEN db[n] ELSE {}]

\* create_table_query on a store db: each of the seven tables is dropped when it
\* exists, then created.
DropAndCreate(db) == [n \in ToSet(db_tables) |-> {}]

PrimaryKeys(db, table) == {r[schema[table].pk] : r \in db[table]}

\* A schema without its FOREIGN KEY clauses.
ForeignKeysUnchecked(db, row, fks) == TRUE

\* FOREIGN KEY (col) REFERENCES ref: a non-null key must be the key of a row of ref.
ForeignKeysHold(db, row, fks) ==
    \A fk \in fks : IsNull(row[fk[1]]) \/ row[fk[1]] \in PrimaryKeys(db, fk[2])

SameUnique(r1, r2, cols) ==
    /\ cols # {}
    /\ \A c \in cols : ~IsNull(r1[c]) /\ r1[c] = r2[c]

\* Whether INSERT INTO table VALUES records passes every constraint.
InsertAccepted(db, table, records) ==
    LET sc == schema[table]
        n == Len(records)
    IN  /\ \A i \in 1..n :
              /\ ~IsNull(records[i][sc.pk])
              /\ \A c \in sc.not_null : ~IsNull(records[i][c])
              /\ records[i][sc.pk] \notin PrimaryKeys(db, table)
              /\ \A r \in db[table] : ~SameUnique(records[i], r, sc.unique)
              /\ ForeignKeysHold(db, records[i], sc.fks)
        /\ \A i, j \in 1..n :
              i < j => /\ records[i][sc.pk] # records[j][sc.pk]
                       /\ ~SameUnique(records[i], records[j], sc.unique)

\* Python's float NaN, which pandas gives for an empty cell; psycopg2 sends it
\* as 'NaN'::float.
NaN == << "nan" >>
IsNa(v) == v = Null \/ v = NaN

\* The columns declared INTEGER (beside the keys) and those declared VARCHAR.
integer_columns == {"bedrooms", "bathrooms", "square_footage", "year_built", "lot_size"}
varchar_columns ==
    {"property_code", "property_address", "property_type", "owner_names", "owner_type",
     "city", "state", "zip_code", "county", "agent_name", "agent_phone", "agent_email",
     "listing_office_name", "listing_office_phone", "listing_office_email",
     "listing_office_website", "listing_code", "listing_type", "status"}

\* The assignment cast of a value to its column's type: an INTEGER column
\* rounds a float, a VARCHAR column takes a float as its text.
PgAssign(c, v) ==
    IF c \in integer_columns /\ IsNum(v)
    THEN N(IF v[3] >= 5 THEN v[2] + 1 ELSE v[2], 0)
    ELSE IF c \in varchar_columns /\ v = NaN THEN S("NaN")
    ELSE v

Stored(record) == [c \in DOMAIN record |-> PgAssign(c, record[c])]

\* The table after a committed INSERT of records that pass the constraints.
Inserted(db, table, records) ==
    [db EXCEPT ![table] = @ \cup {Stored(records[i]) : i \in 1..Len(records)}]

(***************************************************************************)
(* LOAD.py.  What a loader reads from a cell is the cell's text; int() and *)
(* float() accept the text of a number (int() only without a decimal       *)
(* part), and pandas reads an empty cell as NaN.                           *)
(***************************************************************************)
IsBlank(cell) == cell = Txt("")
PyIntOk(cell) == cell[1] = "lit" /\ cell[3] = 0
PyFloatOk(cell) == cell[1] = "lit"
\* A text as the store keeps it.
TextValue(cell) == IF cell[1] = "txt" THEN S(cell[2]) ELSE cell
\* row[k] or None
OrNone(cell) == IF IsBlank(cell) THEN Null ELSE TextValue(cell)
\* int(float(row[k])) if row[k] else None
TruncOrNone(cell) == IF IsBlank(cell) THEN Null ELSE N(cell[2], 0)
\* float(row[k]) if row[k] else None
FloatOrNone(cell) == IF IsBlank(cell) THEN Null ELSE N(cell[2], cell[3])

Loaded(raises, records) == [raises |-> raises, records |-> records]

\* load_property_dim_table, lines 37-58: csv.reader, cells by position; a row
\* that fails to parse is skipped.
PropertyRowSkipped(row) ==
    \/ row = <<>>
    \/ \A k \in 1..Len(row) : IsBlank(row[k])
    \/ Len(row) < 9
    \/ ~PyIntOk(row[1])
    \/ \E k \in 5..9 : ~IsBlank(row[k]) /\ ~PyFloatOk(row[k])

property_records(file) ==
    LET kept == SelectSeq(file.rows, LAMBDA row : ~PropertyRowSkipped(row))
    IN  Loaded("",
          [i \in 1..Len(kept) |->
              [property_id |-> N(kept[i][1][2], 0),
               property_code |-> OrNone(kept[i][2]),
               property_address |-> OrNone(kept[i][3]),
               property_type |-> OrNone(kept[i][4]),
               bedrooms |-> TruncOrNone(kept[i][5]),
               bathrooms |-> TruncOrNone(kept[i][6]),
               square_footage |-> TruncOrNone(kept[i][7]),
               year_built |-> TruncOrNone(kept[i][8]),
               lot_size |-> FloatOrNone(kept[i][9])]])

\* pd.read_csv(csv_path, dtype=object): the cells by column name.
HasColumn(file, name) == \E k \in 1..Len(file.header) : file.header[k] = name
ColumnIndex(file, name) == CHOOSE k \in 1..Len(file.header) : file.header[k] = name
ReadCell(cell) == IF IsBlank(cell) THEN NaN ELSE cell
\* row.get(name, None)
RowGet(file, row, name) ==
    IF HasColumn(file, name) THEN ReadCell(row[ColumnIndex(file, name)]) ELSE Null
\* A value of row.get given to the store as it is: a text, NaN or None.
AsGiven(v) == IF IsNa(v) THEN v ELSE TextValue(v)

\* int(row[id]) if not pd.isna(row[id]) else None raises KeyError without the
\* column and ValueError on a text that is no integer; the row is then skipped.
IdRowSkipped(file, row, id) ==
    \/ ~HasColumn(file, id)
    \/ ~IsNa(RowGet(file, row, id)) /\ ~PyIntOk(RowGet(file, row, id))

IdValue(file, row, id) ==
    IF IsNa(RowGet(file, row, id)) THEN Null ELSE N(RowGet(file, row, id)[2], 0)

\* occ.strip().lower() in ['1', 'true', 'yes'] for a text; None for NaN or None.
\* The numbers of this column are floats (fillna(0.0)), written 0.0, 1.0.
OccupiedValue(occ) ==
    IF IsNa(occ) THEN Null
    ELSE B(occ \in {Txt("1"), Txt("true"), Txt("True"), Txt("TRUE"),
                    Txt("yes"), Txt("Yes"), Txt("YES")})

\* load_owner_dim_table, lines 100-118.
owner_records(file) ==
    LET kept == SelectSeq(file.rows, LAMBDA row : ~IdRowSkipped(file, row, "owner_id"))
    IN  IF file.header = <<>> THEN Loaded("EmptyDataError", <<>>)
        ELSE Loaded("",
          [i \in 1..Len(kept) |->
              [owner_id |-> IdValue(file, kept[i], "owner_id"),
               owner_names |-> AsGiven(RowGet(file, kept[i], "owner_names")),
               owner_type |-> AsGiven(RowGet(file, kept[i], "owner_type")),
               owner_occupied |-> OccupiedValue(RowGet(file, kept[i], "owner_Occupied"))]])

\* load_agent_dim_table, lines 228-242.
agent_records(file) ==
    LET kept == SelectSeq(file.rows, LAMBDA row : ~IdRowSkipped(file, row, "agent_id"))
    IN  IF file.header = <<>> THEN Loaded("EmptyDataError", <<>>)
        ELSE Loaded("",
          [i \in 1..Len(kept) |->
              [agent_id |-> IdValue(file, kept[i], "agent_id"),
               agent_name |-> AsGiven(RowGet(file, kept[i], "agent_name")),
               agent_phone |-> AsGiven(RowGet(file, kept[i], "agent_phone")),
               agent_email |-> AsGiven(RowGet(file, kept[i], "agent_email"))]])

\* load_office_dim_table, lines 283-298.
office_records(file) ==
    LET kept == SelectSeq(file.rows, LAMBDA row : ~IdRowSkipped(file, row, "office_id"))
    IN  IF file.header = <<>> THEN Loaded("EmptyDataError", <<>>)
        ELSE Loaded("",
          [i \in 1..Len(kept) |->
              [office_id |-> IdValue(file, kept[i], "office_id"),
               listing_office_name |-> AsGiven(RowGet(file, kept[i], "listing_office_name")),
               listing_office_phone |-> AsGiven(RowGet(file, kept[i], "listing_office_phone")),
               listing_office_email |-> AsGiven(RowGet(file, kept[i], "listing_office_email")),
               listing_office_website |->
                   AsGiven(RowGet(file, kept[i], "listing_office_website"))]])

\* load_listing_dim_table, lines 339-352.
listing_records(file) ==
    LET kept == SelectSeq(file.rows, LAMBDA row : ~IdRowSkipped(file, row, "listing_id"))
    IN  IF file.header = <<>> THEN Loaded("EmptyDataError", <<>>)
        ELSE Loaded("",
          [i \in 1..Len(kept) |->
              [listing_id |-> IdValue(file, kept[i], "listing_id"),
               listing_code |-> AsGiven(RowGet(file, kept[i], "listing_code")),
               listing_type |-> AsGiven(RowGet(file, kept[i], "listing_Type"))]])


\* pd.to_numeric(errors='coerce'): the number of a numeric text, else NaN.
ToNumeric(v) == IF ~IsNa(v) /\ v[1] = "lit" THEN N(v[2], v[3]) ELSE NaN
\* None if pd.isna(x) else int(x)
IntOrNone(v) == IF IsNa(v) THEN Null ELSE N(v[2], 0)
\* None if pd.isna(x) else float(x)
NumberOrNone(v) == IF IsNa(v) THEN Null ELSE v
\* pd.to_datetime(errors='coerce').dt.strftime('%Y-%m-%d'), then None for a null:
\* the day of a date text.
DayOrNone(v) == IF ~IsNa(v) /\ v[1] = "datetxt" THEN D(v[2]) ELSE Null

location_expected ==
    << "location_id", "city", "state", "zip_Code", "county", "longitude", "latitude" >>

\* load_location_dim_table, lines 161-187: no row is skipped; an id that is no
\* number becomes 0 (fillna(0).astype(int)).
location_records(file) ==
    IF file.header = <<>> THEN Loaded("EmptyDataError", <<>>)
    ELSE IF \E k \in 1..Len(location_expected) : ~HasColumn(file, location_expected[k])
    THEN Loaded("ValueError", <<>>)
    ELSE Loaded("",
          [i \in 1..Len(file.rows) |->
              LET row == file.rows[i]
                  id == ToNumeric(RowGet(file, row, "location_id"))
                  zip == RowGet(file, row, "zip_Code")
              IN  [location_id |-> IF IsNa(id) THEN N(0, 0) ELSE N(id[2], 0),
                   city |-> AsGiven(RowGet(file, row, "city")),
                   state |-> AsGiven(RowGet(file, row, "state")),
                   zip_code |-> IF IsNa(zip) THEN Null ELSE TextValue(zip),
                   county |-> AsGiven(RowGet(file, row, "county")),
                   longitude |-> NumberOrNone(ToNumeric(RowGet(file, row, "longitude"))),
                   latitude |-> NumberOrNone(ToNumeric(RowGet(file, row, "latitude")))]])

fact_expected ==
    << "fact_id", "property_id", "owner_id", "location_id", "agent_id", "office_id",
       "listing_id", "status", "price", "listing_Type", "listed_Date", "last_saleDate",
       "removed_Date", "created_Date", "last_Seen_Date", "last_SalePrice", "property_Type" >>

\* load_fact_dim_table, lines 393-439: no row is skipped; a key or a number that
\* does not parse becomes None.
fact_records(file) ==
    IF file.header = <<>> THEN Loaded("EmptyDataError", <<>>)
    ELSE IF \E k \in 1..Len(fact_expected) : ~HasColumn(file, fact_expected[k])
    THEN Loaded("ValueError", <<>>)
    ELSE Loaded("",
          [i \in 1..Len(file.rows) |->
              LET row == file.rows[i]
              IN  [fact_id |-> IntOrNone(ToNumeric(RowGet(file, row, "fact_id"))),
                   property_id |-> IntOrNone(ToNumeric(RowGet(file, row, "property_id"))),
                   owner_id |-> IntOrNone(ToNumeric(RowGet(file, row, "owner_id"))),
                   location_id |-> IntOrNone(ToNumeric(RowGet(file, row, "location_id"))),
                   agent_id |-> IntOrNone(ToNumeric(RowGet(file, row, "agent_id"))),
                   office_id |-> IntOrNone(ToNumeric(RowGet(file, row, "office_id"))),
                   listing_id |-> IntOrNone(ToNumeric(RowGet(file, row, "listing_id"))),
                   status |-> AsGiven(RowGet(file, row, "status")),
                   price |-> NumberOrNone(ToNumeric(RowGet(file, row, "price"))),
                   listing_type |-> AsGiven(RowGet(file, row, "listing_Type")),
                   listed_date |-> DayOrNone(RowGet(file, row, "listed_Date")),
                   last_saledate |-> DayOrNone(RowGet(file, row, "last_saleDate")),
                   removed_date |-> DayOrNone(RowGet(file, row, "removed_Date")),
                   created_date |-> DayOrNone(RowGet(file, row, "created_Date")),
                   last_seen_date |-> DayOrNone(RowGet(file, row, "last_Seen_Date")),
                   last_sale_price |->
                       NumberOrNone(ToNumeric(RowGet(file, row, "last_SalePrice"))),
                   property_type |-> AsGiven(RowGet(file, row, "property_Type"))]])

\* A load order with the owner table ahead of the property table.
table_configs_owner_first ==
    << << "owner_data.csv", "owner_dim_table" >>,
       << "property_dim_table.csv", "property_dim_table" >>,
       << "location_dim.csv", "location_dim_table" >>,
       << "agent_data.csv", "agent_dim_table" >>,
       << "office_data.csv", "office_dim_table" >>,
       << "listing_data.csv", "listing_dim_table" >>,
       << "fact_data.csv", "fact_dim_table" >> >>

\* load_all_tables: the files in load order, each with its table.
table_configs ==
    << << "property_dim_table.csv", "property_dim_table" >>,
       << "owner_data.csv", "owner_dim_table" >>,
       << "location_dim.csv", "location_dim_table" >>,
       << "agent_data.csv", "agent_dim_table" >>,
       << "office_data.csv", "office_dim_table" >>,
       << "listing_data.csv", "listing_dim_table" >>,
       << "fact_data.csv", "fact_dim_table" >> >>

\* What the loader of a table builds from its file.
RecordsOf(table, file) ==
    CASE table = "property_dim_table" -> property_records(file)
      [] table = "owner_dim_table" -> owner_records(file)
      [] table = "location_dim_table" -> location_records(file)
      [] table = "agent_dim_table" -> agent_records(file)
      [] table = "office_dim_table" -> office_records(file)
      [] table = "listing_dim_table" -> listing_records(file)
      [] table = "fact_dim_table" -> fact_records(file)

(***************************************************************************)
(* One call of a loader.  load_property_dim_table opens its connection and *)
(* cursor before it opens the file; the six others read the file (and the  *)
(* location and fact loaders validate its columns) before they connect.    *)
(* The records go to the store in one INSERT inside one transaction.  The  *)
(* store may fail the call at one point, the fault: when connecting, when  *)
(* opening the cursor, at the INSERT, at the commit, or when closing.      *)
(***************************************************************************)
Faults == {"none", "connect", "cursor", "insert", "commit", "close"}

\* What a load used: the fault it met, the connections and cursors it opened,
\* the close calls _safe_close made, what is still open when the load ends, the
\* INSERT statements executed, the commits and rollbacks, the notice printed.
NoSession ==
    [fault |-> "none", connections |-> 0, cursors |-> 0, connection_closes |-> 0,
     cursor_closes |-> 0, open_connections |-> 0, open_cursors |-> 0, inserts |-> 0,
     commits |-> 0, rollbacks |-> 0, notice |-> FALSE]

\* A finally clause that closes nothing.
CloseNothing(connections, cursors, fault) ==
    [connection_closes |-> 0, cursor_closes |-> 0,
     open_connections |-> connections, open_cursors |-> cursors]

\* _safe_close(conn, cursor): close() is called on the cursor and on the
\* connection when they are not None; an exception of close() is swallowed, and
\* what failed to close stays open.
SafeClose(connections, cursors, fault) ==
    [connection_closes |-> connections, cursor_closes |-> cursors,
     open_connections |-> IF fault = "close" THEN connections ELSE 0,
     open_cursors |-> IF fault = "close" THEN cursors ELSE 0]

\* A failed commit that leaves the batch in the table.
BatchKept(db, table, records) == Inserted(db, table, records)

\* except psycopg2.Error: conn.rollback(); raise.  Nothing of the batch stays.
RolledBack(db, table, records) == db

\* open(csv_path) or pd.read_csv(csv_path), then the loader's parsing.
ReadFile(table, fs, name) ==
    IF name \notin DOMAIN fs THEN Loaded("FileNotFoundError", <<>>)
    ELSE RecordsOf(table, fs[name])

\* The call load_func(csv_path, get_db_connection) on store db: the exception it
\* raises ("" when it returns), the store afterwards, and what it used.
RunLoad(db, table, fs, name, fault) ==
    LET read == ReadFile(table, fs, name)
        reads_first == table # "property_dim_table"
        connects == ~(reads_first /\ read.raises # "")
        connected == connects /\ fault # "connect"
        has_cursor == connected /\ fault # "cursor"
        has_records == has_cursor /\ read.raises = "" /\ read.records # <<>>
        accepted == has_records /\ fault # "insert" /\ InsertAccepted(db, table, read.records)
        committed == accepted /\ fault # "commit"
        raises ==
            IF ~connects THEN read.raises
            ELSE IF ~has_cursor THEN "psycopg2.Error"
            ELSE IF read.raises # "" THEN read.raises
            ELSE IF read.records = <<>> \/ committed THEN ""
            ELSE "psycopg2.Error"
        closed == SafeClose(IF connected THEN 1 ELSE 0, IF has_cursor THEN 1 ELSE 0, fault)
    IN  [raises |-> raises,
         db |-> IF committed THEN Inserted(db, table, read.records)
                ELSE IF accepted THEN RolledBack(db, table, read.records)
                ELSE db,
         session |->
            [fault |-> fault,
             connections |-> IF connected THEN 1 ELSE 0,
             cursors |-> IF has_cursor THEN 1 ELSE 0,
             connection_closes |-> closed.connection_closes,
             cursor_closes |-> closed.cursor_closes,
             open_connections |-> closed.open_connections,
             open_cursors |-> closed.open_cursors,
             inserts |-> IF has_records /\ fault # "insert" THEN 1 ELSE 0,
             commits |-> IF committed THEN 1 ELSE 0,
             rollbacks |-> IF raises = "psycopg2.Error" /\ connected THEN 1 ELSE 0,
             notice |-> has_cursor /\ read.raises = "" /\ read.records = <<>>]]

(***************************************************************************)
(* The records the extraction may return (EXTRACT.py, json_normalize): a   *)
(* frame with the columns of the API, or pd.DataFrame() without columns    *)
(* when no record came back.  owner.names is a list of names, a single     *)
(* text, or missing.                                                       *)
(***************************************************************************)
api_property_columns == property_columns \o << "addressLine1" >>
api_sale_columns == sale_columns \o << "daysOnMarket" >>

PropertyRecord(id, address, names, bedrooms) ==
    ("id" :> S(id)) @@ ("formattedAddress" :> S(address)) @@ ("county" :> S("Bexar")) @@
    ("lastSaleDate" :> Iso("2020-05-01")) @@ ("owner.names" :> names) @@
    ("owner.type" :> S("Individual")) @@ ("lastSalePrice" :> N(150000, 0)) @@
    ("ownerOccupied" :> Null) @@ ("bedrooms" :> bedrooms) @@ ("bathrooms" :> N(2, 5)) @@
    ("squareFootage" :> N(1200, 0)) @@ ("yearBuilt" :> N(1990, 0)) @@
    ("city" :> S("San Antonio")) @@ ("state" :> S("TX")) @@ ("zipCode" :> S("78204")) @@
    ("latitude" :> N(29, 4)) @@ ("longitude" :> N(98, 5)) @@
    ("propertyType" :> S("Single Family")) @@ ("lotSize" :> Null) @@
    ("addressLine1" :> S(address))

PropertySamples ==
    { PropertyRecord("P1", "1 Main St", L(<< "Ann", "Bob" >>), N(3, 0)),
      PropertyRecord("P1", "1 Main St", S("Ann, Bob"), Null),
      PropertyRecord("P2", "2 Oak Ave", Null, N(3, 0)) }

SaleRecord(id, agent, price) ==
    ("id" :> S(id)) @@ ("status" :> S("Active")) @@ ("price" :> price) @@
    ("listingType" :> S("Standard")) @@ ("listedDate" :> Iso("2024-01-05")) @@
    ("propertyType" :> S("Single Family")) @@ ("listingAgent.name" :> agent) @@
    ("listingAgent.phone" :> Null) @@ ("listingAgent.email" :> Null) @@
    ("listingOffice.name" :> S("Prime Realty")) @@ ("listingOffice.phone" :> Null) @@
    ("listingOffice.email" :> Null) @@ ("listingOffice.website" :> Null) @@
    ("removedDate" :> Null) @@ ("createdDate" :> Iso("2024-01-05")) @@
    ("lastSeenDate" :> Iso("2024-02-01")) @@ ("daysOnMarket" :> N(27, 0))

SaleSamples ==
    { SaleRecord("P1", S("Ann Agent"), N(200000, 0)),
      SaleRecord("P2", Null, Null) }

SeqsUpTo(set, n) == UNION {[1..k -> set] : k \in 0..n}

\* pd.json_normalize(records) if records else pd.DataFrame()
ApiFrame(records, columns) ==
    IF records = <<>> THEN EmptyFrame ELSE [columns |-> columns, rows |-> records]

(***************************************************************************)
(* The state of one run of main (MAIN.py).                                 *)
(***************************************************************************)
VARIABLES
    pc,                \* where main is
    error,             \* the exception main re-raised ("" when none)
    df_properties,     \* what fetch_rentcast_data returned
    df_sale_listings,
    df_merged,         \* the wide table process_rentcast_data returned
    dims,              \* the six dimension tables of process_dimension_tables
    fact_table,        \* the fact table
    files,             \* the CSV files of csv_dir, by name
    edited,            \* whether a dimension file was changed after it was written
    store,             \* the rows of the seven tables of schema primesquare
    loaded,            \* how many loads of load_all_tables have returned
    session            \* what the last load used (connections, cursors, statements)

vars ==
    << pc, error, df_properties, df_sale_listings, df_merged, dims, fact_table, files,
       edited, store, loaded, session >>

NoFiles == << >>

WriteFiles(old, names, contents) ==
    [n \in DOMAIN old \cup ToSet(names) |->
        IF \E k \in 1..Len(names) : names[k] = n
        THEN contents[CHOOSE k \in 1..Len(names) : names[k] = n]
        ELSE old[n]]

NoDims ==
    [location |-> EmptyFrame, property |-> EmptyFrame, agent |-> EmptyFrame,
     owner |-> EmptyFrame, office |-> EmptyFrame, listing |-> EmptyFrame]

\* The store main finds: no table yet, or the tables of an earlier run with the
\* rows that run loaded.
EarlierRun ==
    [EmptyTables EXCEPT
        !.agent_dim_table =
            {[agent_id |-> N(0, 0), agent_name |-> S("Old Agent"),
              agent_phone |-> S("NaN"), agent_email |-> S("NaN")]},
        !.listing_dim_table =
            {[listing_id |-> N(0, 0), listing_code |-> S("P9"),
              listing_type |-> S("Standard")]}]
InitialStores == {EmptyTables, EarlierRun}

Init ==
    /\ pc = "start"
    /\ error = ""
    /\ df_properties = EmptyFrame
    /\ df_sale_listings = EmptyFrame
    /\ df_merged = EmptyFrame
    /\ dims = NoDims
    /\ fact_table = EmptyFrame
    /\ files = NoFiles
    /\ edited = FALSE
    /\ store \in InitialStores
    /\ loaded = 0
    /\ session = NoSession

\* Step 1: fetch_rentcast_data.
Extract ==
    /\ pc = "start"
    /\ \E ps \in SeqsUpTo(PropertySamples, MaxProperties),
          ls \in SeqsUpTo(SaleSamples, MaxListings) :
          /\ df_properties' = ApiFrame(ps, api_property_columns)
          /\ df_sale_listings' = ApiFrame(ls, api_sale_columns)
    /\ pc' = "extracted"
    /\ UNCHANGED << error, df_merged, dims, fact_table, files, edited, store, loaded, session >>

\* A main that recreates the tables before it processes the data.
process_rentcast_data_after_schema ==
    /\ pc = "extracted"
    /\ IF HasColumns(df_properties, property_columns)
          /\ HasColumns(df_sale_listings, sale_columns)
       THEN LET n == Normalize(df_properties, df_sale_listings)
                merged == merge_dataframes(n[1], n[2])
            IN  /\ df_merged' = merged
                /\ files' = WriteFiles(files, << "property_data.csv" >>, << to_csv(merged) >>)
                /\ pc' = "transformed"
                /\ error' = error
       ELSE /\ pc' = "failed"
            /\ error' = "KeyError"
            /\ UNCHANGED << df_merged, files >>
    /\ store' = EmptyTables
    /\ UNCHANGED << df_properties, df_sale_listings, dims, fact_table, edited, loaded,
                    session >>

\* Step 2: process_rentcast_data.  select_columns raises KeyError on a frame
\* that lacks a selected column; otherwise the wide table is written to
\* property_data.csv and returned.
process_rentcast_data ==
    /\ pc = "extracted"
    /\ IF HasColumns(df_properties, property_columns)
          /\ HasColumns(df_sale_listings, sale_columns)
       THEN LET n == Normalize(df_properties, df_sale_listings)
                merged == merge_dataframes(n[1], n[2])
            IN  /\ df_merged' = merged
                /\ files' = WriteFiles(files, << "property_data.csv" >>, << to_csv(merged) >>)
                /\ pc' = "transformed"
                /\ error' = error
       ELSE /\ pc' = "failed"
            /\ error' = "KeyError"
            /\ UNCHANGED << df_merged, files >>
    /\ UNCHANGED << df_properties, df_sale_listings, dims, fact_table, edited, store, loaded, session >>

\* Step 3: process_dimension_tables.  The six dimension tables are built, then
\* the fact table; a TypeError of a merge leaves main before anything is saved.
process_dimension_tables ==
    /\ pc = "transformed"
    /\ LET location_dim == create_location_dim_table(df_merged)
           property_dim == create_property_dim_table(df_merged)
           agent_dim == create_agent_dim_table(df_merged)
           owner_dim == create_owner_dim_table(df_merged)
           office_dim == create_office_dim_table(df_merged)
           listing_dim == create_listing_dim_table(df_merged)
           dimension_tables ==
               << property_dim, owner_dim, location_dim, agent_dim, office_dim, listing_dim >>
       IN  /\ dims' = [location |-> location_dim, property |-> property_dim,
                       agent |-> agent_dim, owner |-> owner_dim,
                       office |-> office_dim, listing |-> listing_dim]
           /\ IF FactRaises(DropColumns(df_merged, {"_merge"}), dimension_tables)
              THEN /\ pc' = "failed"
                   /\ error' = "TypeError"
                   /\ UNCHANGED << fact_table, files >>
              ELSE LET fact == create_fact_table(df_merged, dimension_tables)
                   IN  /\ fact_table' = fact
                       /\ files' = WriteFiles(files, table_names,
                              save_dimension_tables(
                                  << location_dim, property_dim, agent_dim, owner_dim,
                                     office_dim, listing_dim, fact >>))
                       /\ pc' = "built"
                       /\ error' = error
    /\ UNCHANGED << df_properties, df_sale_listings, df_merged, edited, store, loaded, session >>

dimension_files ==
    { "location_dim.csv", "property_dim_table.csv", "agent_data.csv", "owner_data.csv",
      "office_data.csv", "listing_data.csv" }

\* The files are read back from csv_dir: between the writing and the loading a
\* dimension file may be changed once, either the key of one row made
\* unreadable or a malformed row added at the end.
EditFile ==
    /\ pc = "built"
    /\ ~edited
    /\ \E name \in dimension_files :
          \E i \in 0..Len(files[name].rows) :
              files' = [files EXCEPT ![name].rows =
                          IF i = 0
                          THEN Append(@, [k \in 1..Len(files[name].header) |-> Txt("x")])
                          ELSE [@ EXCEPT ![i][1] = Txt("x")]]
    /\ edited' = TRUE
    /\ UNCHANGED << pc, error, df_properties, df_sale_listings, df_merged, dims,
                    fact_table, store, loaded, session >>

\* A main that recreates the tables before it looks at get_db_connection.
return_after_schema ==
    /\ pc = "built"
    /\ store' = DropAndCreate(store)
    /\ pc' = "returned"
    /\ UNCHANGED << error, df_properties, df_sale_listings, df_merged, dims, fact_table,
                    files, edited, loaded, session >>

\* Step 4 when get_db_connection is None (the default): main prints that the
\* database is skipped and returns; the argument is read nowhere before.
return_without_connection ==
    /\ pc = "built"
    /\ pc' = "returned"
    /\ UNCHANGED << error, df_properties, df_sale_listings, df_merged, dims, fact_table,
                    files, edited, store, loaded, session >>

\* Step 4 with a connection provider: create_database_tables drops and
\* recreates the seven tables.
create_database_tables ==
    /\ pc = "built"
    /\ store' = DropAndCreate(store)
    /\ loaded' = 0
    /\ pc' = "loading"
    /\ UNCHANGED << error, df_properties, df_sale_listings, df_merged, dims, fact_table,
                    files, edited, session >>

\* Step 5: load_all_tables, one load at a time.  A load reads its file, builds
\* the records, returns without an INSERT when there are none, and otherwise
\* inserts them in one statement and commits; an error of the store rolls the
\* statement back and is raised, which ends main.
LoadTable ==
    /\ pc = "loading"
    /\ LET name == table_configs[loaded + 1][1]
           table == table_configs[loaded + 1][2]
           after == IF loaded + 1 = Len(table_configs) THEN "done" ELSE "loading"
           r == RunLoad(store, table, files, name, "none")
       IN  /\ store' = r.db
           /\ session' = r.session
           /\ IF r.raises # ""
              THEN pc' = "failed" /\ error' = r.raises /\ loaded' = loaded
              ELSE pc' = after /\ error' = error /\ loaded' = loaded + 1
    /\ UNCHANGED << df_properties, df_sale_listings, df_merged, dims, fact_table, files,
                    edited >>

Next ==
    \/ Extract
    \/ process_rentcast_data
    \/ process_dimension_tables
    \/ EditFile
    \/ return_without_connection
    \/ create_database_tables
    \/ LoadTable

Spec == Init /\ [][Next]_vars

(***************************************************************************)
(* create_fact_table on its own: it takes any dimension tables, here those *)
(* of the first n rows of the wide table (the tables of a shorter batch),  *)
(* so that a lookup can fail.                                              *)
(***************************************************************************)
DimensionsOf(df) ==
    [location |-> create_location_dim_table(df), property |-> create_property_dim_table(df),
     agent |-> create_agent_dim_table(df), owner |-> create_owner_dim_table(df),
     office |-> create_office_dim_table(df), listing |-> create_listing_dim_table(df)]

FirstRows(df, n) == [df EXCEPT !.rows = SubSeq(df.rows, 1, n)]

InitFact ==
    /\ pc = "fact_input"
    /\ error = ""
    /\ \E ps \in SeqsUpTo(PropertySamples, MaxProperties) \ {<<>>},
          ls \in SeqsUpTo(SaleSamples, MaxListings) \ {<<>>} :
          /\ df_properties = ApiFrame(ps, api_property_columns)
          /\ df_sale_listings = ApiFrame(ls, api_sale_columns)
    /\ df_merged = LET n == Normalize(df_properties, df_sale_listings)
                   IN  merge_dataframes(n[1], n[2])
    /\ \E n \in 0..Len(df_merged.rows) : dims = DimensionsOf(FirstRows(df_merged, n))
    /\ fact_table = EmptyFrame
    /\ files = NoFiles
    /\ edited = FALSE
    /\ store = EmptyTables
    /\ loaded = 0
    /\ session = NoSession

CallCreateFactTable ==
    /\ pc = "fact_input"
    /\ LET dimension_tables ==
               << dims.property, dims.owner, dims.location, dims.agent, dims.office,
                  dims.listing >>
       IN  IF FactRaises(DropColumns(df_merged, {"_merge"}), dimension_tables)
           THEN pc' = "failed" /\ error' = "TypeError" /\ UNCHANGED fact_table
           ELSE /\ fact_table' = create_fact_table(df_merged, dimension_tables)
                /\ pc' = "fact_built"
                /\ error' = error
    /\ UNCHANGED << df_properties, df_sale_listings, df_merged, dims, files, edited,
                    store, loaded, session >>

SpecFact == InitFact /\ [][CallCreateFactTable]_vars

(***************************************************************************)
(* One loader call on its own.  The files are those the pipeline writes    *)
(* for two properties and one listing; the file of the table to load is as *)
(* written, or reduced to its header, or without any content, or absent,   *)
(* or lacks its key column or its last column, or has an unreadable key in *)
(* its first row.  The store holds the tables loaded before this one, or   *)
(* this one as well (the file is loaded a second time).                    *)
(***************************************************************************)
BaseProperties ==
    << PropertyRecord("P1", "1 Main St", S("Ann, Bob"), Null),
       PropertyRecord("P2", "2 Oak Ave", Null, N(3, 0)) >>
BaseListings == << SaleRecord("P1", S("Ann Agent"), N(200000, 0)) >>

BaseFiles ==
    LET n == Normalize(ApiFrame(BaseProperties, api_property_columns),
                       ApiFrame(BaseListings, api_sale_columns))
        wide == merge_dataframes(n[1], n[2])
        d == DimensionsOf(wide)
        fact == create_fact_table(wide, << d.property, d.owner, d.location, d.agent,
                                           d.office, d.listing >>)
    IN  WriteFiles(NoFiles, table_names,
                   save_dimension_tables(<< d.location, d.property, d.agent, d.owner,
                                            d.office, d.listing, fact >>))

FileVariants ==
    {"written", "header_only", "no_content", "absent", "no_id_column",
     "no_last_column", "bad_id"}

\* The owner file may instead carry, in its first row, the occupancy flag in
\* one of the forms a flag is written in; 1.0 and 0.0 are the texts of floats.
OccupancyVariants ==
    {"occupied_1", "occupied_true", "occupied_True", "occupied_Yes", "occupied_1.0",
     "occupied_0", "occupied_0.0", "occupied_false", "occupied_no", "occupied_missing"}
OccupancyCell(v) ==
    CASE v = "occupied_1" -> Txt("1")
      [] v = "occupied_true" -> Txt("true")
      [] v = "occupied_True" -> Txt("True")
      [] v = "occupied_Yes" -> Txt("Yes")
      [] v = "occupied_1.0" -> Lit(1, 0)
      [] v = "occupied_0" -> Txt("0")
      [] v = "occupied_0.0" -> Lit(0, 0)
      [] v = "occupied_false" -> Txt("false")
      [] v = "occupied_no" -> Txt("no")
      [] v = "occupied_missing" -> Txt("")

\* Or its second row may repeat the first under its own key, save for one cell:
\* 2.0 bathrooms beside 2.5 in the property file, the flag False beside 0.0 in
\* the owner file.
TwinVariants == {"twin_bathrooms", "twin_occupied"}
TwinTable(v) == IF v = "twin_bathrooms" THEN "property_dim_table" ELSE "owner_dim_table"
TwinColumn(v) == IF v = "twin_bathrooms" THEN "bathrooms" ELSE "owner_Occupied"
TwinCell(v) == IF v = "twin_bathrooms" THEN Lit(2, 0) ELSE Txt("False")

WithoutIndex(seq, k) == [i \in 1..(Len(seq) - 1) |-> IF i < k THEN seq[i] ELSE seq[i + 1]]
WithoutColumn(file, k) ==
    [header |-> WithoutIndex(file.header, k),
     rows |-> [i \in 1..Len(file.rows) |-> WithoutIndex(file.rows[i], k)]]

VariantFiles(fs, name, v) ==
    CASE v = "written" -> fs
      [] v = "header_only" -> [fs EXCEPT ![name].rows = <<>>]
      [] v = "no_content" -> [fs EXCEPT ![name] = [header |-> <<>>, rows |-> <<>>]]
      [] v = "absent" -> [f \in DOMAIN fs \ {name} |-> fs[f]]
      [] v = "no_id_column" -> [fs EXCEPT ![name] = WithoutColumn(@, 1)]
      [] v = "no_last_column" -> [fs EXCEPT ![name] = WithoutColumn(@, Len(@.header))]
      [] v = "bad_id" -> [fs EXCEPT ![name].rows[1][1] = Txt("x")]
      [] v \in TwinVariants ->
            [fs EXCEPT ![name].rows[2] =
                [fs[name].rows[1] EXCEPT ![1] = fs[name].rows[2][1],
                                         ![ColumnIndex(fs[name], TwinColumn(v))] = TwinCell(v)]]
      [] v \in OccupancyVariants ->
            [fs EXCEPT ![name].rows[1][ColumnIndex(fs[name], "owner_Occupied")] =
                          OccupancyCell(v)]

\* The store after the first k loads of load_all_tables on the files as written.
RECURSIVE LoadedThrough(_)
LoadedThrough(k) ==
    IF k = 0 THEN EmptyTables
    ELSE LET before == LoadedThrough(k - 1)
         IN  RunLoad(before, table_configs[k][2], BaseFiles, table_configs[k][1],
                     "none").db

InitLoad ==
    /\ pc = "load_input"
    /\ error = ""
    /\ df_properties = EmptyFrame
    /\ df_sale_listings = EmptyFrame
    /\ df_merged = EmptyFrame
    /\ dims = NoDims
    /\ fact_table = EmptyFrame
    /\ \E k \in 1..Len(table_configs),
          v \in FileVariants \cup OccupancyVariants \cup TwinVariants, again \in BOOLEAN :
          /\ v \in OccupancyVariants => table_configs[k][2] = "owner_dim_table"
          /\ v \in TwinVariants => table_configs[k][2] = TwinTable(v)
          /\ loaded = k - 1
          /\ files = VariantFiles(BaseFiles, table_configs[k][1], v)
          /\ edited = (v # "written")
          /\ store = LoadedThrough(IF again THEN k ELSE k - 1)
    /\ session = NoSession

\* load_func(csv_path, get_db_connection) for the table that is next in the
\* load order.
CallLoad ==
    /\ pc = "load_input"
    /\ \E fault \in Faults :
          LET r == RunLoad(store, table_configs[loaded + 1][2], files,
                           table_configs[loaded + 1][1], fault)
          IN  /\ store' = r.db
              /\ session' = r.session
              /\ error' = r.raises
              /\ pc' = IF r.raises = "" THEN "load_returned" ELSE "load_raised"
    /\ UNCHANGED << df_properties, df_sale_listings, df_merged, dims, fact_table, files,
                    edited, loaded >>

SpecLoad == InitLoad /\ [][CallLoad]_vars

(***************************************************************************)
(* create_database_tables called twice in succession, on a store in which  *)
(* any of the seven tables may exist, empty or with an earlier run's rows. *)
(***************************************************************************)
InitSchema ==
    /\ pc = "schema_input"
    /\ error = ""
    /\ df_properties = EmptyFrame
    /\ df_sale_listings = EmptyFrame
    /\ df_merged = EmptyFrame
    /\ dims = NoDims
    /\ fact_table = EmptyFrame
    /\ files = NoFiles
    /\ edited = FALSE
    /\ \E existing \in SUBSET ToSet(db_tables), with_rows \in BOOLEAN :
          store = [n \in existing |-> IF with_rows THEN EarlierRun[n] ELSE {}]
    /\ loaded = 0
    /\ session = NoSession

CallCreateDatabaseTables ==
    /\ pc \in {"schema_input", "schema_once"}
    /\ store' = DropAndCreate(store)
    /\ pc' = IF pc = "schema_input" THEN "schema_once" ELSE "schema_twice"
    /\ UNCHANGED << error, df_properties, df_sale_listings, df_merged, dims, fact_table,
                    files, edited, loaded, session >>

SpecSchema == InitSchema /\ [][CallCreateDatabaseTables]_vars

(***************************************************************************)
(* The claims.                                                             *)
(***************************************************************************)
DimNames == {"location", "property", "agent", "owner", "office", "listing"}
DimAttrs ==
    [location |-> location_attrs, property |-> property_attrs, agent |-> agent_attrs,
     owner |-> owner_attrs, office |-> office_attrs, listing |-> listing_attrs]
DimId ==
    [location |-> "location_id", property |-> "property_id", agent |-> "agent_id",
     owner |-> "owner_id", office |-> "office_id", listing |-> "listing_id"]

\* process_dimension_tables has built the dimension tables.
BuildRan == pc \in {"built", "loading", "done"} \/ (pc = "failed" /\ error # "KeyError")
\* create_fact_table has returned a fact table.
FactBuilt == pc \in {"built", "loading", "done", "fact_built"}
                \/ (pc = "failed" /\ error \notin {"KeyError", "TypeError"})

\* Row k of the wide table, projected on the attributes of dimension d, the
\* owner names in their joined form.
WideTuple(d, k) == Project(OwnerNamesJoined(df_merged).rows[k], DimAttrs[d])
DimTuple(d, i) == Project(dims[d].rows[i], DimAttrs[d])
\* key is the key of the row of dimension d that holds tuple.
ResolvesTo(d, key, tuple) ==
    \E i \in 1..Len(dims[d].rows) : dims[d].rows[i][DimId[d]] = key /\ DimTuple(d, i) = tuple
HasDimRow(d, tuple) == \E i \in 1..Len(dims[d].rows) : DimTuple(d, i) = tuple

\* C1: in each of the six dimension tables no two rows have the same attribute
\* tuple (two nulls count as equal).
C1_DimensionRowsDistinct ==
    BuildRan =>
        \A d \in DimNames :
            \A i, j \in 1..Len(dims[d].rows) : i < j => DimTuple(d, i) # DimTuple(d, j)

\* C1 witness: a wide table whose rows repeat a location but not a property.
C1_Witness ==
    /\ BuildRan
    /\ Len(df_merged.rows) = 2
    /\ Len(dims.location.rows) = 1
    /\ Len(dims.property.rows) = 2

\* The first row of the wide table that holds the tuple of row i of dimension d.
FirstOccurrence(d, i) ==
    CHOOSE k \in 1..Len(df_merged.rows) :
        /\ WideTuple(d, k) = DimTuple(d, i)
        /\ \A m \in 1..(k - 1) : WideTuple(d, m) # DimTuple(d, i)

\* C2: the keys of a dimension table with n rows are 0, 1, ..., n-1 in row
\* order, the rows are the tuples of the wide table, and they stand in the order
\* in which each tuple first occurs in the wide table.
C2_KeysDenseInFirstOccurrenceOrder ==
    BuildRan =>
        \A d \in DimNames :
            LET n == Len(dims[d].rows)
            IN  /\ \A i \in 1..n : dims[d].rows[i][DimId[d]] = N(i - 1, 0)
                /\ \A i \in 1..n : \E k \in 1..Len(df_merged.rows) :
                                        WideTuple(d, k) = DimTuple(d, i)
                /\ \A k \in 1..Len(df_merged.rows) : HasDimRow(d, WideTuple(d, k))
                /\ \A i, j \in 1..n : i < j => FirstOccurrence(d, i) < FirstOccurrence(d, j)

\* C2 witness: two properties, the first of them on two rows of the wide table.
C2_Witness ==
    /\ BuildRan
    /\ Len(df_merged.rows) = 3
    /\ Len(dims.property.rows) = 2
    /\ WideTuple("property", 1) = WideTuple("property", 2)

\* C3 (as claimed): for every wide table, create_fact_table finds a match in
\* each of the six joins: it returns a fact table in which every surrogate key
\* is non-null and is the key of the dimension row holding the wide row's tuple.
C3_EveryJoinMatches ==
    BuildRan =>
        /\ error # "TypeError"
        /\ Len(fact_table.rows) = Len(df_merged.rows)
        /\ \A k \in 1..Len(fact_table.rows) : \A d \in DimNames :
              /\ ~IsNull(fact_table.rows[k][DimId[d]])
              /\ ResolvesTo(d, fact_table.rows[k][DimId[d]], WideTuple(d, k))

\* C4: after a run in which load_all_tables returned, every non-null foreign
\* key stored in fact_dim_table is the key of a stored row of its dimension
\* table, also when a loader skipped a malformed row.
C4_StoredForeignKeysResolve ==
    pc = "done" =>
        \A f \in store.fact_dim_table :
            \A fk \in schema.fact_dim_table.fks :
                \/ IsNull(f[fk[1]])
                \/ \E r \in store[fk[2]] : r[schema[fk[2]].pk] = f[fk[1]]

\* C4 witness: a completed run with fact rows stored, in which a loader
\* skipped the malformed row of a dimension file.
C4_Witness ==
    /\ pc = "done"
    /\ edited
    /\ \E f \in store.fact_dim_table : ~IsNull(f.agent_id)
    /\ \E i \in 1..Len(table_configs) :
          Len(files[table_configs[i][1]].rows) > Cardinality(store[table_configs[i][2]])

\* C5 (as claimed): no two rows of the fact table agree on all columns other
\* than fact_id.
C5_FactRowsDistinct ==
    FactBuilt =>
        \A i, j \in 1..Len(fact_table.rows) :
            i < j => Project(fact_table.rows[i], selected_columns)
                        # Project(fact_table.rows[j], selected_columns)

\* C6: the fact_id values of a fact table with n rows are 1, 2, ..., n in row
\* order.
C6_FactIdsSequential ==
    FactBuilt =>
        \A i \in 1..Len(fact_table.rows) : fact_table.rows[i]["fact_id"] = N(i, 0)

\* C6 witness: a fact table of three rows.
C6_Witness ==
    /\ pc = "built"
    /\ Len(fact_table.rows) = 3

\* The fact rows whose property key is that of the property of wide row k.
FactRowsOfProperty(k) ==
    {i \in 1..Len(fact_table.rows) :
        ResolvesTo("property", fact_table.rows[i]["property_id"], WideTuple("property", k))}

\* C7 (as claimed): a property without a matching listing appears exactly once
\* in the fact table, with null listing_id, agent_id and office_id and with
\* property_id, owner_id and location_id resolved.
C7_UnlistedPropertyHasNullKeys ==
    (FactBuilt /\ pc # "fact_built") =>
        \A k \in 1..Len(df_merged.rows) :
            df_merged.rows[k]["_merge"] = S("left_only") =>
                /\ Cardinality(FactRowsOfProperty(k)) = 1
                /\ \A i \in FactRowsOfProperty(k) :
                      /\ IsNull(fact_table.rows[i]["listing_id"])
                      /\ IsNull(fact_table.rows[i]["agent_id"])
                      /\ IsNull(fact_table.rows[i]["office_id"])
                      /\ \A d \in {"property", "owner", "location"} :
                            ResolvesTo(d, fact_table.rows[i][DimId[d]], WideTuple(d, k))

measure_columns ==
    << "status", "price", "listing_Type", "listed_Date", "last_saleDate", "removed_Date",
       "created_Date", "last_Seen_Date", "property_Type", "last_SalePrice" >>

\* f is a fact row for wide row w: it carries w's measures, and each of its
\* surrogate keys is the key of the dimension row holding w's tuple, or null
\* when no dimension row holds it.
IsFactRowFor(f, k) ==
    /\ Project(f, measure_columns) = Project(df_merged.rows[k], measure_columns)
    /\ \A d \in DimNames :
          IF HasDimRow(d, WideTuple(d, k))
          THEN ResolvesTo(d, f[DimId[d]], WideTuple(d, k))
          ELSE IsNull(f[DimId[d]])

LookupFails(k) == \E d \in DimNames : ~HasDimRow(d, WideTuple(d, k))

Normalized == Normalize(df_properties, df_sale_listings)
\* The listings of n whose listing_code is the property_code of property i.
ListingsOf(n, i) ==
    SelectSeq(n[2].rows, LAMBDA l : l["listing_code"] = n[1].rows[i]["property_code"])
\* max(1, k) for each property, k its number of matching listings.
Copies(n) == [i \in 1..Len(n[1].rows) |-> Max(1, Len(ListingsOf(n, i)))]

listing_side(n) == SelectSeq(n[2].columns, LAMBDA c : c # "listing_property_Type")

\* C9: the wide table holds, property by property in order, max(1, k) rows of
\* each property record, k the number of listings with its code: one per
\* matching listing, or one with nulls on the listing side; it has no other
\* row, so a listing matching no property contributes none.
C9_LeftOuterJoin ==
    pc = "transformed" =>
        LET n == Normalized
            copies == Copies(n)
            side == listing_side(n)
        IN  /\ Len(df_merged.rows) = SumSeq(copies)
            /\ \A i \in 1..Len(copies) :
                  LET listings == ListingsOf(n, i)
                      before == SumSeq(SubSeq(copies, 1, i - 1))
                  IN  \A j \in 1..copies[i] :
                        LET row == df_merged.rows[before + j]
                        IN  /\ Project(row, n[1].columns) = n[1].rows[i]
                            /\ IF listings = <<>>
                               THEN \A c \in ToSet(side) : IsNull(row[c])
                               ELSE Project(row, side) = Project(listings[j], side)

\* C9 witness: a property with two listings, a property with none.
C9_Witness ==
    /\ pc = "transformed"
    /\ LET n == Normalized
       IN  /\ \E i \in 1..Len(n[1].rows) : Len(ListingsOf(n, i)) = 2
           /\ \E i \in 1..Len(n[1].rows) : Len(ListingsOf(n, i)) = 0

\* C10 (as claimed): _merge is a column of none of the files the pipeline
\* writes.
C10_MergeFlagNotPersisted ==
    \A name \in DOMAIN files : "_merge" \notin ToSet(files[name].header)

\* The record sets fill_missing_values is given.
BeforeFill ==
    LET s == select_columns(df_properties, df_sale_listings)
        r == rename_columns(s[1], s[2])
    IN  convert_dates(r[1], r[2])

zero_fields ==
    {"bedrooms", "bathrooms", "square_Footage", "year_Built", "lot_Size", "owner_Occupied",
     "last_SalePrice", "latitude", "longitude", "price"}
unknown_fields ==
    {"county", "property_Type", "owner_names", "owner_type", "property_Address", "city",
     "state", "zip_Code", "status", "listing_Type", "listing_property_Type", "agent_name",
     "agent_phone", "agent_email", "listing_office_name", "listing_office_phone",
     "listing_office_email", "listing_office_website"}
date_fields ==
    {"last_saleDate", "listed_Date", "removed_Date", "created_Date", "last_Seen_Date"}

\* C11: after fill_missing_values, in both record sets a missing numeric field
\* is 0, a missing text field is "unknown", a missing date stays null, no
\* defaulted field is null, and a value that was present is unchanged.
C11_MissingValuesDefaulted ==
    pc = "transformed" =>
        LET before == BeforeFill
            after == fill_missing_values(before[1], before[2])
        IN  \A s \in 1..2 :
                /\ after[s].columns = before[s].columns
                /\ Len(after[s].rows) = Len(before[s].rows)
                /\ \A i \in 1..Len(before[s].rows) : \A c \in ToSet(before[s].columns) :
                      LET old == before[s].rows[i][c]
                          new == after[s].rows[i][c]
                      IN  /\ ~IsNull(old) => new = old
                          /\ (IsNull(old) /\ c \in zero_fields) => new = N(0, 0)
                          /\ (IsNull(old) /\ c \in unknown_fields) => new = S("unknown")
                          /\ (IsNull(old) /\ c \in date_fields) => IsNull(new)
                          /\ c \in zero_fields \cup unknown_fields => ~IsNull(new)

\* C11 witness: a property without bedrooms and a listing without an agent name
\* and without a removal date.
C11_Witness ==
    /\ pc = "transformed"
    /\ LET before == BeforeFill
       IN  /\ \E i \in 1..Len(before[1].rows) :
                 IsNull(before[1].rows[i]["bedrooms"]) /\ ~IsNull(before[1].rows[i]["city"])
           /\ \E i \in 1..Len(before[2].rows) :
                 /\ IsNull(before[2].rows[i]["agent_name"])
                 /\ IsNull(before[2].rows[i]["removed_Date"])

\* main re-raised an error of the Normalizer, the Join Reconciler, the Dimension
\* Extractor or the Fact Builder.
StageFailed == pc = "failed" /\ error \in {"KeyError", "TypeError"}

\* C12: when process_rentcast_data or process_dimension_tables raises, main
\* re-raises: the run ends there, create_database_tables and the loads are not
\* executed, and the store is as main found it.  A record set without the
\* selected columns (no records extracted) is such a failure.
C12_StageErrorAbortsRun ==
    /\ [](StageFailed => store \in InitialStores /\ loaded = 0 /\ session = NoSession)
    /\ [][/\ ~StageFailed
          /\ StageFailed' => store' = store /\ loaded' = loaded /\ session' = session
          /\ (pc = "extracted" /\ (df_properties = EmptyFrame \/ df_sale_listings = EmptyFrame))
                => (pc' = "failed" /\ error' = "KeyError")]_vars

\* C12 witness: no property record was extracted, main has re-raised KeyError,
\* and the rows of the earlier run are still in the store.
C12_Witness ==
    /\ StageFailed
    /\ df_properties = EmptyFrame
    /\ store = EarlierRun

\* The rows of a file whose key cell is an integer, and the keys they carry.
WellFormedRows(file) == {i \in 1..Len(file.rows) : PyIntOk(file.rows[i][1])}
WellFormedKeys(file) == {N(file.rows[i][1][2], 0) : i \in WellFormedRows(file)}
LoadsBegun == pc \in {"loading", "done"} \/ (pc = "failed" /\ ~StageFailed)

\* C13 (as claimed): in each load a row with a value that fails coercion is left
\* out of the insert, every other row of the file is inserted, and the load
\* completes without error.
C13_MalformedRowsSkipped ==
    LoadsBegun =>
        \A k \in 1..Len(table_configs) :
            LET file == files[table_configs[k][1]]
                table == table_configs[k][2]
            IN  /\ loaded >= k => PrimaryKeys(store, table) = WellFormedKeys(file)
                /\ (pc = "failed" /\ loaded = k - 1)
                      => WellFormedRows(file) = 1..Len(file.rows)

\* The table the single load call is for, its file name, and what the loader
\* reads from the file.
LoadTableName == table_configs[loaded + 1][2]
LoadFileName == table_configs[loaded + 1][1]
LoadRead == ReadFile(LoadTableName, files, LoadFileName)
LoadEnded == pc \in {"load_returned", "load_raised"}

\* The call got as far as the INSERT, and the INSERT or the commit failed at the
\* store (a fault of the store, or a constraint the batch breaks).
StatementFails(fault) ==
    /\ fault \notin {"connect", "cursor"}
    /\ LoadRead.raises = ""
    /\ LoadRead.records # <<>>
    /\ \/ fault \in {"insert", "commit"}
       \/ ~InsertAccepted(store, LoadTableName, LoadRead.records)

\* C14: when the INSERT or the commit of a load fails at the store, the load
\* rolls back and raises: no row of the batch is persisted and the rows of the
\* tables committed earlier are unchanged.
C14_FailedStatementRolledBack ==
    [][(pc = "load_input" /\ StatementFails(session'.fault)) =>
          /\ pc' = "load_raised"
          /\ error' = "psycopg2.Error"
          /\ store' = store
          /\ session'.rollbacks = 1
          /\ session'.commits = 0]_vars

\* C14 witness: the commit of the third load failed after its INSERT, with rows
\* of the two earlier tables in the store.
C14_Witness ==
    /\ pc = "load_raised"
    /\ session.fault = "commit"
    /\ session.inserts = 1
    /\ loaded = 2
    /\ store.property_dim_table # {}
    /\ store.owner_dim_table # {}
    /\ store.location_dim_table = {}

\* C16 (as claimed): when the file lacks a column the load expects (a column of
\* the file as written), the load fails with an error and no INSERT is
\* attempted: it is no silent no-op and inserts no row.
C16_MissingColumnIsFatal ==
    (/\ LoadEnded
     /\ LoadFileName \in DOMAIN files
     /\ files[LoadFileName].header # <<>>
     /\ ~(ToSet(BaseFiles[LoadFileName].header) \subseteq ToSet(files[LoadFileName].header)))
        => (pc = "load_raised" /\ session.inserts = 0)

\* C17 (as claimed): when the file holds no records (a header only, or no
\* content at all), the load is a no-op: no INSERT, no commit, a notice, and it
\* returns without raising.
C17_EmptyFileIsNoOp ==
    (/\ LoadEnded
     /\ session.fault = "none"
     /\ LoadFileName \in DOMAIN files
     /\ files[LoadFileName].rows = <<>>)
        => /\ pc = "load_returned"
           /\ session.inserts = 0
           /\ session.commits = 0
           /\ session.notice

\* C18: a load opens at most one connection and one cursor; however it ends,
\* _safe_close has called close on each of them, and they are closed unless
\* close itself failed; a failure while closing leaves the load's outcome (what
\* it raises, what it stored) as it is without that failure.
C18_ConnectionReleased ==
    /\ [](LoadEnded =>
            /\ session.connections <= 1
            /\ session.cursors <= session.connections
            /\ session.connection_closes = session.connections
            /\ session.cursor_closes = session.cursors
            /\ session.fault # "close" =>
                  (session.open_connections = 0 /\ session.open_cursors = 0))
    /\ [][(pc = "load_input" /\ session'.fault = "close") =>
            LET r == RunLoad(store, LoadTableName, files, LoadFileName, "none")
            IN  error' = r.raises /\ store' = r.db]_vars

\* C18 witness: a load that opened its connection and cursor and then raised on
\* a store error, both closed.
C18_Witness ==
    /\ pc = "load_raised"
    /\ error = "psycopg2.Error"
    /\ session.connections = 1
    /\ session.cursors = 1
    /\ session.connection_closes = 1
    /\ session.open_connections = 0
    /\ session.open_cursors = 0

\* C15 (as claimed): a load that ends in a fatal error does not keep the later
\* tables from being loaded: when the run has ended on a load error, the rows
\* of the files of the tables after the failed one are in the store.
C15_LoadErrorsIsolated ==
    (pc = "failed" /\ ~StageFailed) =>
        \A k \in (loaded + 2)..Len(table_configs) :
            WellFormedKeys(files[table_configs[k][1]])
                \subseteq PrimaryKeys(store, table_configs[k][2])

\* C19: create_database_tables called twice leaves the store as one call does:
\* the seven tables exist and are empty, whatever rows there were before.
C19_SchemaCreationIdempotent ==
    /\ [](pc \in {"schema_once", "schema_twice"} =>
            /\ DOMAIN store = ToSet(db_tables)
            /\ \A n \in DOMAIN store : store[n] = {})
    /\ [][pc = "schema_once" => store' = store]_vars

\* C19 witness: the second call has returned.
C19_Witness ==
    /\ pc = "schema_twice"
    /\ \A n \in ToSet(db_tables) : store[n] = {}

\* The dimension table and the store's table of the k-th load, and the store's
\* name of a column.
loaded_dimension == << "property", "owner", "location", "agent", "office", "listing" >>
StoredName(c) ==
    CASE c = "property_Address" -> "property_address"
      [] c = "property_Type" -> "property_type"
      [] c = "square_Footage" -> "square_footage"
      [] c = "year_Built" -> "year_built"
      [] c = "lot_Size" -> "lot_size"
      [] c = "owner_Occupied" -> "owner_occupied"
      [] c = "zip_Code" -> "zip_code"
      [] c = "listing_Type" -> "listing_type"
      [] OTHER -> c
SameValue(a, b) == a[1] = b[1] /\ a = b

\* C20 (as claimed): a dimension table written by save_dimension_tables and
\* loaded from the file as written is stored row for row, each row with its key
\* and its attribute values unchanged.
C20_DimensionRoundTrip ==
    (LoadsBegun /\ ~edited) =>
        \A k \in 1..Len(loaded_dimension) :
            loaded >= k =>
                LET dim == dims[loaded_dimension[k]]
                    stored == store[table_configs[k][2]]
                IN  /\ Cardinality(stored) = Len(dim.rows)
                    /\ \A i \in 1..Len(dim.rows) : \E r \in stored :
                          \A c \in ToSet(dim.columns) :
                              SameValue(r[StoredName(c)], dim.rows[i][c])

\* The forms of a true flag and of a false flag in the owner file.
true_flags == {Txt("1"), Txt("true"), Txt("True"), Txt("yes"), Txt("Yes"), Lit(1, 0)}
false_flags == {Txt("0"), Txt("false"), Txt("False"), Txt("no"), Txt("No"), Lit(0, 0)}

\* C21 (as claimed): load_owner_dim_table stores the occupancy flag as true for
\* every form of a true flag ("1", "true", "yes" in any case, and 1.0), as false
\* for the forms of a false flag, and as null only when it is missing.
C21_OccupancyNormalized ==
    (/\ pc = "load_returned"
     /\ LoadTableName = "owner_dim_table"
     /\ LoadFileName \in DOMAIN files
     /\ HasColumn(files[LoadFileName], "owner_Occupied")
     /\ HasColumn(files[LoadFileName], "owner_id"))
        => LET file == files[LoadFileName]
           IN  \A i \in WellFormedRows(file) : \A r \in store.owner_dim_table :
                   r.owner_id = N(file.rows[i][1][2], 0) =>
                       LET cell == file.rows[i][ColumnIndex(file, "owner_Occupied")]
                       IN  /\ cell \in true_flags => r.owner_occupied = B(TRUE)
                           /\ cell \in false_flags => r.owner_occupied = B(FALSE)
                           /\ IsNull(r.owner_occupied) <=> IsBlank(cell)

\* The order of the loads: the six dimension tables, then the fact table.
load_order ==
    << "property_dim_table", "owner_dim_table", "location_dim_table", "agent_dim_table",
       "office_dim_table", "listing_dim_table", "fact_dim_table" >>

\* C22: in a run of main with a connection provider the store operations happen
\* in one fixed order.  The step that begins the loads leaves every table
\* dropped and recreated (empty) with no load returned yet; a load changes only
\* the table whose turn it is, in the order property, owner, location, agent,
\* office, listing, fact, and each load that returns without error passes the
\* turn to the next; the fact table gets rows only when the six dimension loads
\* have returned without error and their rows are committed; once a load has
\* raised, or all seven have returned, the store does not change again.
C22_FixedStoreOrder ==
    [][ /\ (pc # "loading" /\ pc' = "loading") =>
               (pc = "built" /\ store' = EmptyTables /\ loaded' = 0)
        /\ store' # store => pc \in {"built", "loading"}
        /\ pc = "loading" =>
               /\ \A t \in ToSet(db_tables) : store'[t] # store[t] => t = load_order[loaded + 1]
               /\ loaded' \in {loaded, loaded + 1}
               /\ loaded' = loaded <=> pc' = "failed"
               /\ pc' = "done" <=> loaded' = Len(load_order)
        /\ store'.fact_dim_table # store.fact_dim_table =>
               /\ loaded = Len(load_order) - 1
               /\ \A k \in 1..(Len(load_order) - 1) : store[load_order[k]] # {} ]_vars

\* A run that loaded all seven tables, the fact table last.
C22_Witness ==
    /\ pc = "done"
    /\ loaded = Len(load_order)
    /\ \A t \in ToSet(db_tables) : store[t] # {}

\* The columns the schema declares NOT NULL, under their names in the dimension
\* tables process_dimension_tables builds.
required_columns ==
    [location |-> {}, property |-> {"property_code", "property_Address"},
     owner |-> {"owner_names"}, agent |-> {"agent_name"},
     office |-> {"listing_office_name"}, listing |-> {"listing_code"}]

\* C23 (as claimed): every row of every dimension table that is built has a
\* value in each column the schema declares NOT NULL, also when a property has
\* no matching listing.
C23_RequiredColumnsFilled ==
    BuildRan =>
        \A d \in DimNames : \A i \in 1..Len(dims[d].rows) : \A c \in required_columns[d] :
            ~IsNa(dims[d].rows[i][c])

\* Rows i and j of a file differ in a cell other than the key.
FileTuplesDiffer(file, i, j) ==
    \E k \in 2..Len(file.header) : ~SameValue(file.rows[i][k], file.rows[j][k])
\* Two records of a loader differ, as stored, in a column other than the key.
StoredTuplesDiffer(table, r1, r2) ==
    \E c \in DOMAIN r1 \ {schema[table].pk} : ~SameValue(Stored(r1)[c], Stored(r2)[c])

\* C24 (as claimed): when the attribute tuples of the rows of a dimension file
\* are pairwise distinct, the tuples its loader builds for insertion are
\* pairwise distinct as stored, and no two of them break the UNIQUE constraint.
C24_CoercionsKeepRowsDistinct ==
    (/\ pc = "load_input"
     /\ LoadTableName # "fact_dim_table"
     /\ LoadRead.raises = ""
     /\ WellFormedRows(files[LoadFileName]) = 1..Len(files[LoadFileName].rows)
     /\ \A i, j \in 1..Len(files[LoadFileName].rows) :
            i < j => FileTuplesDiffer(files[LoadFileName], i, j))
        => \A i, j \in 1..Len(LoadRead.records) :
               i < j => /\ StoredTuplesDiffer(LoadTableName, LoadRead.records[i],
                                              LoadRead.records[j])
                        /\ ~SameUnique(Stored(LoadRead.records[i]),
                                       Stored(LoadRead.records[j]),
                                       schema[LoadTableName].unique)

\* C25: main without a connection provider extracts, transforms, builds the
\* tables and writes the intermediate files, then returns normally: when it
\* has returned, property_data.csv and the seven table files are written, no
\* error is raised, no connection was opened, no load ran and the store is as
\* main found it; the returning step changes nothing but main's position, and
\* nothing happens after it.
C25_NoProviderLeavesStoreAlone ==
    /\ [](pc = "returned" =>
            /\ error = ""
            /\ DOMAIN files = ToSet(table_names) \cup {"property_data.csv"}
            /\ files["property_data.csv"] = to_csv(df_merged)
            /\ store \in InitialStores
            /\ loaded = 0
            /\ session = NoSession)
    /\ [][/\ pc' = "returned" =>
                (pc = "built" /\ store' = store /\ session' = session /\ loaded' = loaded
                 /\ files' = files /\ error' = error)
          /\ pc # "returned"]_vars

\* C25 witness: main has returned without a provider, the files of two
\* properties are written, and the rows of the earlier run are still stored.
C25_Witness ==
    /\ pc = "returned"
    /\ store = EarlierRun
    /\ session = NoSession
    /\ Len(files["property_dim_table.csv"].rows) = 2
    /\ files["fact_data.csv"].rows # <<>>

====
